---------------------------- MODULE Spec2Model ----------------------------
(***************************************************************************)
(* A model of the WebSocket session of JsonRpcClient: the connection state *)
(* machine and its watchdog (WebSocket.cpp), the outbound queue, the       *)
(* single-slot handoff (SynchronousBlockingQueue.cpp) and the client       *)
(* facade (WebSocketClient.cpp).                                           *)
(*                                                                         *)
(* Threads: "c" is the thread that owns the WebSocketClient (constructs    *)
(* it, calls SendSynchronousRequest, destroys it); the threads of Senders  *)
(* call WebSocket::SendAsync through GetWebSocket(); "w" is the watchdog   *)
(* thread, which is also the thread libwebsockets calls OnWebSocketEvent   *)
(* on (from lws_service).                                                  *)
(*                                                                         *)
(* Sections guarded by the session mutex, or by the handoff mutex, are a   *)
(* lock step followed by a step that runs the body and unlocks.            *)
(***************************************************************************)
EXTENDS Naturals, Sequences, FiniteSets

\* ------------------------------------------------------------- bounds

\* how many SendAsync / SendSynchronousRequest calls are made in all
MaxSends == 3

\* the connect attempts are counted up to this number (the count saturates)
MaxAttempts == 3

\* the watchdog iterations before the first connection are counted up to this
MaxIter == 4

\* ------------------------------------------------------------- values

\* enum WebSocketConnectState
DISCONNECTED == "DISCONNECTED"

CONNECTING == "CONNECTING"

CONNECTED == "CONNECTED"

\* the threads calling SendAsync directly
Senders == {"s1"}

Callers == Senders \cup {"c"}

Threads == Callers \cup {"w"}

\* a null pointer (handle_, context_, incoming_message_handler_, queue_)
NULL == "null"

\* the one handler object the facade is given, and the session's handoff
HANDLER == "handler"

QUEUE == "queue"

\* the context of the current watchdog cycle
CONTEXT == "context"

\* the mutexes, when nobody holds them
FREE == "free"

\* std::string(): the empty string
EmptyString == [kind |-> "empty", src |-> "none", n |-> 0]

\* the value of a variable that was never assigned by the program
Unset == [kind |-> "unset", src |-> "none", n |-> 0]

\* the n-th payload thread t passes to SendAsync
Request(t, n) == [kind |-> "req", src |-> t, n |-> n]

\* the message the server answers payload p with
Response(p) == [kind |-> "resp", src |-> p.src, n |-> p.n]

\* a message the server sends of its own accord (a notification)
Notification == [kind |-> "note", src |-> "server", n |-> 0]

\* no callback is being dispatched
NoEvent == [reason |-> "none", in |-> EmptyString]

Saturate(x, max) == IF x < max THEN x + 1 ELSE max

\* no connect attempt has yielded a handle yet
NoHandle == [attempt |-> 0, iteration |-> 0]

VARIABLES
  pc,                         \* where each thread is
  connection_state_,          \* WebSocket::connection_state_
  writable_,                  \* WebSocket::writable_
  enqueued_messages_,         \* WebSocket::enqueued_messages_
  handle_,                    \* WebSocket::handle_ : NULL or the id of a wsi
  context_,                   \* WebSocket::context_
  incoming_message_handler_,  \* WebSocket::incoming_message_handler_
  handler_queue_,             \* WebSocketMessageHandler::queue_
  watchdog_thread_running_,   \* WebSocket::watchdog_thread_running_
  mutex_,                     \* WebSocket::mutex_ : FREE or its holder
  ready_to_unlock_,           \* SynchronousBlockingQueue::ready_to_unlock_
  element_,                   \* SynchronousBlockingQueue::element_
  queue_mutex_,               \* SynchronousBlockingQueue::mutex_
  cv_,                        \* the threads blocked in cv_.wait
  message,                    \* each caller's argument of SendAsync
  response_message,           \* what SendSynchronousRequest last returned
  nsent,                      \* how many calls each caller has made
  \* the transport (libwebsockets and the server behind it)
  wsi,                        \* id of the transport's connection, NULL if none
  conn,                       \* "none", "pending" (handshake) or "open"
  want_writable,              \* lws_callback_on_writable is pending on wsi
  inbound,                    \* messages the server sent, not yet received
  written,                    \* the payloads handed to lws_write, in order
  event,                      \* the callback lws_service is dispatching
  crashed,                    \* undefined behaviour ended the process
  \* observations (history, not program state)
  accepted,                   \* payloads in the order SendAsync took mutex_
  attempts,                   \* connect attempts since the last handle
                              \* was got (the count saturates)
  \* while the facade is being constructed:
  iterations,                 \* watchdog iterations up to the first Connected
  first_handle,               \* [attempt, iteration] of the first handle
  first_connected,            \* iteration of the first Established, 0 if none
  offer_returned,             \* argument of the last Offer that returned
  offer_stored,               \* argument of the last Offer that stored it
  offers_without_take,        \* Offers returned since Take was last active
  take_pending,               \* at the call of Take: the unconsumed Offer
  unconsumed,                 \* the last returned Offer was not yet taken
  response_offered,           \* Offer(response of c's request) has returned
  teardown,                   \* the steps of the facade's teardown, in order
  writable_reported           \* the connection of handle_ has reported
                              \* Writable and nothing was written since

sessionVars == <<connection_state_, writable_, enqueued_messages_, handle_,
                 context_, incoming_message_handler_, handler_queue_,
                 watchdog_thread_running_>>

handoffVars == <<ready_to_unlock_, element_, cv_>>

callVars == <<message, response_message, nsent>>

transportVars == <<wsi, conn, want_writable, inbound, written>>

connectObs == <<attempts, iterations, first_handle, first_connected>>

offerObs == <<offer_returned, offer_stored, offers_without_take, unconsumed,
              response_offered>>

takeObs == <<take_pending>>

writeObs == <<writable_reported>>

vars == <<pc, sessionVars, mutex_, handoffVars, queue_mutex_, callVars,
          transportVars, event, crashed, accepted, connectObs, offerObs,
          takeObs, teardown, writeObs>>

\* WebSocket::WebSocket's initialiser list and SynchronousBlockingQueue's;
\* no thread has run yet
Init ==
  /\ pc = [t \in Threads |-> IF t = "c" THEN "new"
                             ELSE IF t = "w" THEN "not_created" ELSE "idle"]
  /\ connection_state_ = DISCONNECTED
  /\ writable_ = FALSE
  /\ enqueued_messages_ = <<>>
  /\ handle_ = NULL
  /\ context_ = NULL
  /\ incoming_message_handler_ = NULL
  /\ handler_queue_ = NULL
  /\ watchdog_thread_running_ = FALSE
  /\ mutex_ = FREE
  /\ ready_to_unlock_ = FALSE
  /\ element_ = EmptyString
  /\ queue_mutex_ = FREE
  /\ cv_ = {}
  /\ message = [t \in Callers |-> Unset]
  /\ response_message = Unset
  /\ nsent = [t \in Callers |-> 0]
  /\ wsi = NULL
  /\ conn = "none"
  /\ want_writable = FALSE
  /\ inbound = <<>>
  /\ written = <<>>
  /\ event = NoEvent
  /\ crashed = FALSE
  /\ accepted = <<>>
  /\ attempts = 0
  /\ iterations = 0
  /\ first_handle = NoHandle
  /\ first_connected = 0
  /\ offer_returned = Unset
  /\ offer_stored = Unset
  /\ offers_without_take = 0
  /\ take_pending = Unset
  /\ unconsumed = FALSE
  /\ response_offered = FALSE
  /\ teardown = <<>>
  /\ writable_reported = FALSE

\* thread t is at label, in a process that is alive
At(t, label) == ~crashed /\ pc[t] = label

Goto(t, label) == pc' = [pc EXCEPT ![t] = label]


\* ------------------------------------------------- WebSocket: the queue

\* a test that takes a queue of one message for empty
MoreThanOneEnqueued(q) == Len(q) > 1

\* WebSocket::HasEnqueuedMessages
HasEnqueuedMessages(q) == q # <<>>

\* an enqueue that puts the message at the head of the queue
EnqueueAtHead(q, m) == <<m>> \o q

\* WebSocket::EnqueueMessage: push_back
EnqueueMessage(q, m) == Append(q, m)

\* a removal that takes the newest message
RemoveNewestEnqueuedMessage(q) ==
  IF q # <<>>
    THEN [message |-> q[Len(q)], rest |-> SubSeq(q, 1, Len(q) - 1)]
    ELSE [message |-> EmptyString, rest |-> q]

\* a removal that returns the oldest message and leaves it in the queue
ReadOldestEnqueuedMessage(q) ==
  IF q # <<>>
    THEN [message |-> q[1], rest |-> q]
    ELSE [message |-> EmptyString, rest |-> q]

\* a removal that returns the oldest message and drops the others
RemoveAllEnqueuedMessages(q) ==
  IF q # <<>>
    THEN [message |-> q[1], rest |-> <<>>]
    ELSE [message |-> EmptyString, rest |-> q]

\* WebSocket::RemoveOldestEnqueuedMessage: the message returned and the
\* queue left; an empty queue yields std::string() and stays empty
RemoveOldestEnqueuedMessage(q) ==
  IF HasEnqueuedMessages(q)
    THEN [message |-> q[1], rest |-> Tail(q)]
    ELSE [message |-> EmptyString, rest |-> q]

\* whether handle_ points to a wsi the transport still has; a handle kept
\* from a connection that was closed points to a freed wsi
HandleIsValid == handle_ # NULL /\ handle_ = wsi

\* whether handle_ is the open connection
HandleIsLive == HandleIsValid /\ conn = "open"

\* the wsi lws_client_connect allocates: not the one handle_ still names
NewWsi == IF handle_ = "wsi1" THEN "wsi2" ELSE "wsi1"

\* WebSocket::WriteMessageToWebSocket: lws_write(handle_, m), writable_ = 0,
\* lws_callback_on_writable(handle_).  On the live connection the server
\* gets m and answers it; on a wsi that is closing the calls fail.  With a
\* null or a stale handle_ the calls have undefined behaviour: they do
\* nothing, or the process dies.
WriteMessageToWebSocket(m) ==
  /\ written' = Append(written, m)
  /\ writable_' = FALSE
  /\ writable_reported' = FALSE
  /\ IF HandleIsLive
       THEN /\ want_writable' = TRUE
            /\ inbound' = Append(inbound, Response(m))
            /\ crashed' = FALSE
       ELSE /\ UNCHANGED <<want_writable, inbound>>
            /\ IF HandleIsValid THEN crashed' = FALSE
                                ELSE crashed' \in BOOLEAN
  /\ UNCHANGED <<wsi, conn>>

\* WebSocket::SendAsync, first half: pthread_mutex_lock(&mutex_)
SendAsyncLock(t) ==
  /\ At(t, "SendAsync")
  /\ mutex_ = FREE
  /\ mutex_' = t
  /\ accepted' = Append(accepted, message[t])
  /\ Goto(t, "SendAsync_locked")
  /\ UNCHANGED <<writeObs, sessionVars, handoffVars, queue_mutex_, callVars,
                 transportVars, event, crashed, connectObs, offerObs,
                 takeObs, teardown>>

\* WebSocket::SendAsync, second half: write if writable_, else enqueue;
\* unlock.  In SendSynchronousRequest the call of Take follows.
SendAsyncBody(t) ==
  /\ At(t, "SendAsync_locked")
  /\ mutex_ = t
  /\ IF writable_
       THEN /\ WriteMessageToWebSocket(message[t])
            /\ UNCHANGED enqueued_messages_
       ELSE /\ enqueued_messages_' = EnqueueMessage(enqueued_messages_, message[t])
            /\ UNCHANGED <<writable_, transportVars, crashed, writeObs>>
  /\ mutex_' = FREE
  /\ Goto(t, IF t = "c" THEN "Take" ELSE "idle")
  /\ UNCHANGED <<connection_state_, handle_, context_,
                 incoming_message_handler_, handler_queue_,
                 watchdog_thread_running_, handoffVars, queue_mutex_,
                 callVars, event, accepted, connectObs, offerObs, takeObs, teardown>>

\* the calls made so far, by all callers
TotalSent == nsent["c"] + nsent["s1"]

\* a thread other than the facade's calls GetWebSocket()->SendAsync(m): the
\* facade is constructed and its teardown has not begun
SenderCalls(t) ==
  /\ t \in Senders
  /\ At(t, "idle")
  /\ pc["c"] \in {"idle", "SendSynchronousRequest", "SendAsync",
                  "SendAsync_locked", "Take", "Take_lock", "Take_check",
                  "Take_wait"}
  /\ TotalSent < MaxSends
  /\ nsent' = [nsent EXCEPT ![t] = @ + 1]
  /\ message' = [message EXCEPT ![t] = Request(t, nsent[t] + 1)]
  /\ Goto(t, "SendAsync")
  /\ UNCHANGED <<writeObs, sessionVars, mutex_, handoffVars, queue_mutex_,
                 response_message, transportVars, event, crashed, accepted,
                 connectObs, offerObs, takeObs, teardown>>

\* ------------------------------------------ SynchronousBlockingQueue::Take

TakeLabels == {"Take", "Take_lock", "Take_check", "Take_wait"}

OfferLabels == {"Offer_lock", "Offer_locked", "Offer_notify"}

\* Take, line 34: ready_to_unlock_ = false, before the mutex is taken
TakeReset ==
  /\ At("c", "Take")
  /\ ready_to_unlock_' = FALSE
  /\ take_pending' = IF unconsumed /\ pc["w"] \notin OfferLabels
                       THEN offer_returned ELSE Unset
  /\ offers_without_take' = 0
  /\ Goto("c", "Take_lock")
  /\ UNCHANGED <<writeObs,
                 sessionVars, mutex_, element_, cv_, queue_mutex_, callVars,
                 transportVars, event, crashed, accepted, connectObs,
                 offer_returned, offer_stored, unconsumed, response_offered, teardown>>

\* Take, line 35, and the relock that ends cv_.wait
TakeLock ==
  /\ At("c", "Take_lock")
  /\ queue_mutex_ = FREE
  /\ queue_mutex_' = "c"
  /\ Goto("c", "Take_check")
  /\ UNCHANGED <<writeObs,
                 sessionVars, mutex_, handoffVars, callVars, transportVars,
                 event, crashed, accepted, connectObs, offerObs, takeObs, teardown>>

\* whether Take's loop leaves: while (!ready_to_unlock_) cv_.wait(lk)
TakeMayReturn(ready) == ready

\* a wait that keeps the mutex locked while thread t is blocked
WaitKeepsMutex(t) == t

\* Take, line 37: the holder of the handoff mutex while thread t is blocked
\* in cv_.wait(lk), which unlocks lk
MutexDuringWait(t) == FREE

\* Take, lines 36-38: return element_ (which ends SendSynchronousRequest and
\* unlocks), or wait, which releases the mutex
TakeCheck ==
  /\ At("c", "Take_check")
  /\ queue_mutex_ = "c"
  /\ queue_mutex_' = IF TakeMayReturn(ready_to_unlock_)
                       THEN FREE ELSE MutexDuringWait("c")
  /\ IF TakeMayReturn(ready_to_unlock_)
       THEN /\ response_message' = element_
            /\ take_pending' = Unset
            /\ unconsumed' = FALSE
            /\ response_offered' = FALSE
            /\ offers_without_take' = 0
            /\ Goto("c", "idle")
            /\ UNCHANGED cv_
       ELSE /\ cv_' = cv_ \cup {"c"}
            /\ Goto("c", "Take_wait")
            /\ UNCHANGED <<response_message, take_pending, unconsumed,
                           response_offered, offers_without_take>>
  /\ UNCHANGED <<writeObs,
                 sessionVars, mutex_, ready_to_unlock_, element_, message,
                 nsent, transportVars, event, crashed, accepted, connectObs,
                 offer_returned, offer_stored, teardown>>

\* cv_.wait returns: the thread was notified
TakeWake ==
  /\ At("c", "Take_wait")
  /\ "c" \notin cv_
  /\ Goto("c", "Take_lock")
  /\ UNCHANGED <<writeObs,
                 sessionVars, mutex_, handoffVars, queue_mutex_, callVars,
                 transportVars, event, crashed, accepted, connectObs,
                 offerObs, takeObs, teardown>>

\* cv_.wait may also return with no notification (a spurious wakeup)
SpuriousWakeup ==
  /\ At("c", "Take_wait")
  /\ "c" \in cv_
  /\ cv_' = cv_ \ {"c"}
  /\ UNCHANGED <<writeObs, pc, sessionVars, mutex_, ready_to_unlock_, element_,
                 queue_mutex_, callVars, transportVars, event, crashed,
                 accepted, connectObs, offerObs, takeObs,
                 teardown>>


\* ------------------------------------------------------ WebSocketClient

\* OpenWebSocket, line 46: new WebSocket(...), whose constructor ends by
\* creating the watchdog thread
NewWebSocket ==
  /\ At("c", "new")
  /\ At("w", "not_created")
  /\ pc' = [pc EXCEPT !["c"] = "SetIncomingMessageHandler",
                      !["w"] = "RunWatchdog"]
  /\ UNCHANGED <<writeObs,
                 sessionVars, mutex_, handoffVars, queue_mutex_, callVars,
                 transportVars, event, crashed, accepted, connectObs,
                 offerObs, takeObs, teardown>>

\* WebSocket::SetIncomingMessageHandler, line 207
SetIncomingMessageHandler ==
  /\ At("c", "SetIncomingMessageHandler")
  /\ incoming_message_handler_' = HANDLER
  /\ Goto("c", "SetQueue")
  /\ UNCHANGED <<writeObs,
                 connection_state_, writable_, enqueued_messages_, handle_,
                 context_, handler_queue_, watchdog_thread_running_, mutex_,
                 handoffVars, queue_mutex_, callVars, transportVars, event,
                 crashed, accepted, connectObs, offerObs, takeObs, teardown>>

\* WebSocket::SetIncomingMessageHandler, line 208: handler->SetQueue(queue_)
SetQueue ==
  /\ At("c", "SetQueue")
  /\ handler_queue_' = QUEUE
  /\ Goto("c", "OpenWebSocket_wait")
  /\ UNCHANGED <<writeObs,
                 connection_state_, writable_, enqueued_messages_, handle_,
                 context_, incoming_message_handler_,
                 watchdog_thread_running_, mutex_, handoffVars, queue_mutex_,
                 callVars, transportVars, event, crashed, accepted,
                 connectObs, offerObs, takeObs, teardown>>

\* the facade's constructor has not returned
Constructing ==
  pc["c"] \in {"new", "SetIncomingMessageHandler", "SetQueue", "OpenWebSocket_wait"}

\* a loop that is left as soon as a connect attempt was made
OpenWebSocketWaitsForAttempt(state) == state = DISCONNECTED

\* the condition of OpenWebSocket's loop: it sleeps and reads again while
\* the state it read is not CONNECTED
OpenWebSocketWaits(state) == state # CONNECTED

\* OpenWebSocket, lines 48-50: one reading of the state; the constructor
\* returns when the reading is CONNECTED
OpenWebSocketWait ==
  /\ At("c", "OpenWebSocket_wait")
  /\ ~OpenWebSocketWaits(connection_state_)
  /\ Goto("c", "idle")
  /\ iterations' = 0
  /\ first_handle' = NoHandle
  /\ first_connected' = 0
  /\ UNCHANGED <<writeObs,
                 sessionVars, mutex_, handoffVars, queue_mutex_, callVars,
                 transportVars, event, crashed, accepted, attempts,
                 offerObs, takeObs, teardown>>

\* the facade's owner calls SendSynchronousRequest(request)
CallSendSynchronousRequest ==
  /\ At("c", "idle")
  /\ TotalSent < MaxSends
  /\ nsent' = [nsent EXCEPT !["c"] = @ + 1]
  /\ message' = [message EXCEPT !["c"] = Request("c", nsent["c"] + 1)]
  /\ response_offered' = FALSE
  /\ Goto("c", "SendSynchronousRequest")
  /\ UNCHANGED <<writeObs, sessionVars, mutex_, handoffVars, queue_mutex_,
                 response_message, transportVars, event, crashed, accepted,
                 connectObs, offer_returned, offer_stored,
                 offers_without_take, unconsumed, takeObs,
                 teardown>>

\* a test that lets a call through while the connection is being made
OnlyDisconnected(state) == state = DISCONNECTED

\* the test of SendSynchronousRequest, line 24
NotConnected(state) == state # CONNECTED

\* SendSynchronousRequest, lines 21-29: return the empty response_message
\* if not connected, else go on to SendAsync(request)
SendSynchronousRequest ==
  /\ At("c", "SendSynchronousRequest")
  /\ IF NotConnected(connection_state_)
       THEN /\ response_message' = EmptyString
            /\ Goto("c", "idle")
       ELSE /\ Goto("c", "SendAsync")
            /\ UNCHANGED response_message
  /\ UNCHANGED <<writeObs,
                 sessionVars, mutex_, handoffVars, queue_mutex_, message,
                 nsent, transportVars, event, crashed, accepted, connectObs,
                 offerObs, takeObs, teardown>>

\* ~WebSocketClient: CloseWebSocket is entered.  The owner destroys the
\* facade when no other thread is using its WebSocket any more.
CallCloseWebSocket ==
  /\ At("c", "idle")
  /\ \A t \in Senders : pc[t] = "idle"
  /\ Goto("c", "CloseWebSocket")
  /\ UNCHANGED <<writeObs,
                 sessionVars, mutex_, handoffVars, queue_mutex_, callVars,
                 transportVars, event, crashed, accepted, connectObs,
                 offerObs, takeObs, teardown>>

\* a teardown that does not look at the queue
NeverWaits(q) == FALSE

\* a teardown that stops waiting when one message is left in the queue
WaitsWhileManyQueued(q) == Len(q) > 1

\* the condition of CloseWebSocket's loop, line 57
CloseWebSocketWaits(q) == HasEnqueuedMessages(q)

\* CloseWebSocket, lines 57-59: one reading of HasEnqueuedMessages; the
\* loop is left, for delete web_socket_, when the queue was read empty
CloseWebSocketWait ==
  /\ At("c", "CloseWebSocket")
  /\ ~CloseWebSocketWaits(enqueued_messages_)
  /\ teardown' = Append(teardown, "drained")
  /\ Goto("c", "~WebSocket")
  /\ UNCHANGED <<writeObs,
                 sessionVars, mutex_, handoffVars, queue_mutex_, callVars,
                 transportVars, event, crashed, accepted, connectObs,
                 offerObs, takeObs>>

\* the session is used without the facade: its owner deletes it right after
\* new WebSocket(...) has returned, which starts the destructor with no
\* wait for the connection or for the queue
DeleteWebSocket ==
  /\ At("c", "SetIncomingMessageHandler")
  /\ Goto("c", "~WebSocket")
  /\ UNCHANGED <<writeObs,
                 sessionVars, mutex_, handoffVars, queue_mutex_, callVars,
                 transportVars, event, crashed, accepted, connectObs,
                 offerObs, takeObs, teardown>>

\* the log of the facade's teardown after a step of the destructor: the
\* log is kept from the end of CloseWebSocket's wait on
TeardownStep(step) ==
  IF teardown = <<>> THEN teardown ELSE Append(teardown, step)

\* ~WebSocket, line 189: enqueued_messages_.clear()
DestructorClear ==
  /\ At("c", "~WebSocket")
  /\ enqueued_messages_' = <<>>
  /\ teardown' = TeardownStep("clear")
  /\ Goto("c", "StopWatchDogThread")
  /\ UNCHANGED <<writeObs, connection_state_, writable_, handle_, context_,
                 incoming_message_handler_, handler_queue_,
                 watchdog_thread_running_, mutex_, handoffVars, queue_mutex_,
                 callVars, transportVars, event, crashed, accepted,
                 connectObs, offerObs, takeObs>>

\* WebSocket::StopWatchDogThread, line 502
StopWatchDogThreadLock ==
  /\ At("c", "StopWatchDogThread")
  /\ mutex_ = FREE
  /\ mutex_' = "c"
  /\ Goto("c", "StopWatchDogThread_locked")
  /\ UNCHANGED <<writeObs, sessionVars, handoffVars, queue_mutex_, callVars,
                 transportVars, event, crashed, accepted, connectObs,
                 offerObs, takeObs, teardown>>

\* WebSocket::StopWatchDogThread, lines 503-504
StopWatchDogThread ==
  /\ At("c", "StopWatchDogThread_locked")
  /\ mutex_ = "c"
  /\ watchdog_thread_running_' = FALSE
  /\ mutex_' = FREE
  /\ teardown' = TeardownStep("stop")
  /\ Goto("c", "pthread_join")
  /\ UNCHANGED <<writeObs,
                 connection_state_, writable_, enqueued_messages_, handle_,
                 context_, incoming_message_handler_, handler_queue_,
                 handoffVars, queue_mutex_, callVars, transportVars, event,
                 crashed, accepted, connectObs, offerObs, takeObs>>

\* ~WebSocket, line 191: pthread_join returns once the watchdog has exited
JoinWatchdog ==
  /\ At("c", "pthread_join")
  /\ At("w", "exited")
  /\ teardown' = TeardownStep("join")
  /\ Goto("c", "release")
  /\ UNCHANGED <<writeObs,
                 sessionVars, mutex_, handoffVars, queue_mutex_, callVars,
                 transportVars, event, crashed, accepted, connectObs,
                 offerObs, takeObs>>

\* ~WebSocket, lines 192-196: the pointers are nulled, the mutex destroyed
\* and the handoff deleted
DestructorRelease ==
  /\ At("c", "release")
  /\ incoming_message_handler_' = NULL
  /\ handle_' = NULL
  /\ context_' = NULL
  /\ teardown' = TeardownStep("release")
  /\ Goto("c", "closed")
  /\ UNCHANGED <<writeObs, connection_state_, writable_, enqueued_messages_,
                 handler_queue_, watchdog_thread_running_, mutex_,
                 handoffVars, queue_mutex_, callVars, transportVars, event,
                 crashed, accepted, connectObs, offerObs, takeObs>>


\* ---------------------------------------------------------- RunWatchdog

\* WebSocket::SetWatchDogThreadStarted, line 490
SetWatchDogThreadStartedLock ==
  /\ At("w", "RunWatchdog")
  /\ mutex_ = FREE
  /\ mutex_' = "w"
  /\ Goto("w", "SetWatchDogThreadStarted_locked")
  /\ UNCHANGED <<writeObs, sessionVars, handoffVars, queue_mutex_, callVars,
                 transportVars, event, crashed, accepted, connectObs,
                 offerObs, takeObs, teardown>>

\* WebSocket::SetWatchDogThreadStarted, lines 491-492
SetWatchDogThreadStarted ==
  /\ At("w", "SetWatchDogThreadStarted_locked")
  /\ mutex_ = "w"
  /\ watchdog_thread_running_' = TRUE
  /\ mutex_' = FREE
  /\ Goto("w", "loop")
  /\ UNCHANGED <<writeObs,
                 connection_state_, writable_, enqueued_messages_, handle_,
                 context_, incoming_message_handler_, handler_queue_,
                 handoffVars, queue_mutex_, callVars, transportVars, event,
                 crashed, accepted, connectObs, offerObs, takeObs, teardown>>

\* WebSocket::IsWatchDogThreadRunning
IsWatchDogThreadRunning == watchdog_thread_running_

\* a watchdog that gives up after two attempts in a row have failed
WatchdogReconnectsTwice(state) == state = DISCONNECTED /\ attempts < 2

\* RunWatchdog, line 104: the else branch (a connect attempt) is taken when
\* the state is DISCONNECTED
WatchdogReconnects(state) == state = DISCONNECTED

\* RunWatchdog, lines 102-108: the loop test and the branch of one iteration
WatchdogLoop ==
  /\ At("w", "loop")
  /\ IF ~IsWatchDogThreadRunning
       THEN /\ Goto("w", "lws_cancel_service")
            /\ UNCHANGED iterations
       ELSE /\ iterations' = IF Constructing /\ first_connected = 0
                               THEN Saturate(iterations, MaxIter)
                               ELSE iterations
            /\ IF WatchdogReconnects(connection_state_)
                 THEN Goto("w", "lws_create_context")
                 ELSE Goto("w", "lws_service")
  /\ UNCHANGED <<writeObs,
                 sessionVars, mutex_, handoffVars, queue_mutex_, callVars,
                 transportVars, event, crashed, accepted, attempts,
                 first_handle, first_connected, offerObs, takeObs, teardown>>

\* RunWatchdog, lines 108-124: sleep, lws_create_context, then lock
CreateContextAndLock ==
  /\ At("w", "lws_create_context")
  /\ mutex_ = FREE
  /\ mutex_' = "w"
  /\ Goto("w", "lws_client_connect")
  /\ UNCHANGED <<writeObs, sessionVars, handoffVars, queue_mutex_, callVars,
                 transportVars, event, crashed, accepted, connectObs,
                 offerObs, takeObs, teardown>>

\* a connect that counts a handle as the established connection
ConnectedAfterConnect(got_handle) == IF got_handle THEN CONNECTED ELSE connection_state_

\* RunWatchdog, lines 139-141: the state after lws_client_connect returned
\* a handle (got_handle) or NULL
StateAfterConnect(got_handle) == IF got_handle THEN CONNECTING ELSE connection_state_

\* RunWatchdog, lines 126-143: SetContext, lws_client_connect, which yields
\* a handle or NULL, SetConnectState(CONNECTING) on a handle, unlock
ClientConnect ==
  /\ At("w", "lws_client_connect")
  /\ mutex_ = "w"
  /\ context_' = CONTEXT
  /\ \E got_handle \in BOOLEAN :
       /\ connection_state_' = StateAfterConnect(got_handle)
       /\ IF got_handle
            THEN wsi' = NewWsi /\ conn' = "pending"
            ELSE UNCHANGED <<wsi, conn>>
       /\ first_handle' = IF got_handle /\ Constructing /\ first_handle = NoHandle
                            THEN [attempt |-> Saturate(attempts, MaxAttempts),
                                  iteration |-> iterations]
                            ELSE first_handle
       /\ attempts' = IF got_handle THEN 0
                      ELSE Saturate(attempts, MaxAttempts)
  /\ mutex_' = FREE
  /\ Goto("w", "loop")
  /\ UNCHANGED <<writeObs, writable_, enqueued_messages_, handle_,
                 incoming_message_handler_, handler_queue_,
                 watchdog_thread_running_, handoffVars, queue_mutex_,
                 callVars, want_writable, inbound, written, event, crashed,
                 accepted, iterations, first_connected, offerObs, takeObs, teardown>>

\* RunWatchdog, line 105: lws_service returns (its timeout passed, or the
\* callbacks it dispatched have returned)
ServiceReturns ==
  /\ At("w", "lws_service")
  /\ Goto("w", "loop")
  /\ UNCHANGED <<writeObs,
                 sessionVars, mutex_, handoffVars, queue_mutex_, callVars,
                 transportVars, event, crashed, accepted, connectObs,
                 offerObs, takeObs, teardown>>

\* lws_service calls OnWebSocketEvent(wsi, reason, ..., in): the handshake
\* of a pending connection ends well (ESTABLISHED) or not
\* (CONNECTION_ERROR); an open connection closes (CLOSED), delivers the
\* next message of the server (RECEIVE), or becomes writable after
\* lws_callback_on_writable (WRITEABLE)
Dispatch(reason) ==
  /\ At("w", "lws_service")
  /\ CASE reason = "ESTABLISHED" ->
            /\ conn = "pending"
            /\ conn' = "open"
            /\ event' = [reason |-> reason, in |-> EmptyString]
            /\ UNCHANGED <<wsi, want_writable, inbound, written>>
       [] reason = "CONNECTION_ERROR" ->
            /\ conn = "pending"
            /\ conn' = "none"
            /\ event' = [reason |-> reason, in |-> EmptyString]
            /\ UNCHANGED <<wsi, want_writable, inbound, written>>
       [] reason = "CLOSED" ->
            /\ conn = "open"
            /\ conn' = "none"
            /\ want_writable' = FALSE
            /\ inbound' = <<>>
            /\ event' = [reason |-> reason, in |-> EmptyString]
            /\ UNCHANGED <<wsi, written>>
       [] reason = "RECEIVE" ->
            /\ conn = "open"
            /\ inbound # <<>>
            /\ inbound' = Tail(inbound)
            /\ event' = [reason |-> reason, in |-> Head(inbound)]
            /\ UNCHANGED <<wsi, conn, want_writable, written>>
       [] reason = "WRITEABLE" ->
            /\ conn = "open"
            /\ want_writable
            /\ want_writable' = FALSE
            /\ event' = [reason |-> reason, in |-> EmptyString]
            /\ UNCHANGED <<wsi, conn, inbound, written>>
  /\ writable_reported' = (writable_reported \/ reason = "WRITEABLE")
  /\ Goto("w", "OnWebSocketEvent")
  /\ UNCHANGED <<sessionVars, mutex_, handoffVars, queue_mutex_, callVars,
                 crashed, accepted, connectObs, offerObs, takeObs, teardown>>

\* the server sends a notification on the open connection; lws_service will
\* hand it to OnWebSocketEvent as a RECEIVE.  The server does so to greet a
\* client: while the session is being set up, one notification at a time.
ServerNotifies ==
  /\ ~crashed
  /\ conn = "open"
  /\ Constructing
  /\ \A i \in 1..Len(inbound) : inbound[i] # Notification
  /\ inbound' = Append(inbound, Notification)
  /\ UNCHANGED <<writeObs, pc, sessionVars, mutex_, handoffVars, queue_mutex_,
                 callVars, wsi, conn, want_writable, written, event, crashed,
                 accepted, connectObs, offerObs, takeObs, teardown>>

Reasons == {"ESTABLISHED", "CONNECTION_ERROR", "CLOSED", "RECEIVE", "WRITEABLE"}

\* OnWebSocketEvent: pthread_mutex_lock, the first statement of every case
\* (in RECEIVE after the message is copied)
OnWebSocketEventLock ==
  /\ At("w", "OnWebSocketEvent")
  /\ mutex_ = FREE
  /\ mutex_' = "w"
  /\ Goto("w", "OnWebSocketEvent_locked")
  /\ UNCHANGED <<writeObs, sessionVars, handoffVars, queue_mutex_, callVars,
                 transportVars, event, crashed, accepted, connectObs,
                 offerObs, takeObs, teardown>>

\* a dispatcher that does not ask for the notification
NoCallbackOnWritable(pending) == pending

\* lws_callback_on_writable(wsi), line 41: whether a writable notification
\* is pending on the wsi after the call (pending: whether one was before)
CallbackOnWritable(pending) == TRUE

\* case LWS_CALLBACK_CLIENT_ESTABLISHED, lines 35-43
OnEstablished ==
  /\ At("w", "OnWebSocketEvent_locked")
  /\ event.reason = "ESTABLISHED"
  /\ connection_state_' = CONNECTED
  /\ handle_' = wsi
  /\ mutex_' = FREE
  /\ want_writable' = CallbackOnWritable(want_writable)
  /\ writable_reported' = FALSE
  /\ first_connected' = IF Constructing /\ first_connected = 0
                          THEN iterations ELSE first_connected
  /\ event' = NoEvent
  /\ Goto("w", "lws_service")
  /\ UNCHANGED <<writable_, enqueued_messages_, context_,
                 incoming_message_handler_, handler_queue_,
                 watchdog_thread_running_, handoffVars, queue_mutex_,
                 callVars, wsi, conn, inbound, written, crashed, accepted,
                 attempts, iterations, first_handle, offerObs, takeObs, teardown>>

\* a dispatcher that starts the reconnect itself
ConnectingAfterClose == CONNECTING

\* the state the cases CONNECTION_ERROR and CLOSED set, lines 47 and 54
StateAfterClose == DISCONNECTED

\* case LWS_CALLBACK_CLIENT_CONNECTION_ERROR, lines 44-50, and case
\* LWS_CALLBACK_CLOSED, lines 51-57; the transport frees the wsi afterwards
OnConnectionErrorOrClosed ==
  /\ At("w", "OnWebSocketEvent_locked")
  /\ event.reason \in {"CONNECTION_ERROR", "CLOSED"}
  /\ connection_state_' = StateAfterClose
  /\ mutex_' = FREE
  /\ wsi' = NULL
  /\ event' = NoEvent
  /\ Goto("w", "lws_service")
  /\ UNCHANGED <<writeObs, writable_, enqueued_messages_, handle_, context_,
                 incoming_message_handler_, handler_queue_,
                 watchdog_thread_running_, handoffVars, queue_mutex_,
                 callVars, conn, want_writable, inbound, written, crashed,
                 accepted, connectObs, offerObs, takeObs,
                 teardown>>

\* case LWS_CALLBACK_CLIENT_WRITEABLE, lines 66-78
OnWriteable ==
  /\ At("w", "OnWebSocketEvent_locked")
  /\ event.reason = "WRITEABLE"
  /\ IF HasEnqueuedMessages(enqueued_messages_)
       THEN /\ enqueued_messages_' =
                 RemoveOldestEnqueuedMessage(enqueued_messages_).rest
            /\ WriteMessageToWebSocket(
                 RemoveOldestEnqueuedMessage(enqueued_messages_).message)
       ELSE /\ writable_' = TRUE
            /\ UNCHANGED <<enqueued_messages_, transportVars, crashed,
                           writeObs>>
  /\ mutex_' = FREE
  /\ event' = NoEvent
  /\ Goto("w", "lws_service")
  /\ UNCHANGED <<connection_state_, handle_, context_,
                 incoming_message_handler_, handler_queue_,
                 watchdog_thread_running_, handoffVars, queue_mutex_,
                 callVars, accepted, connectObs, offerObs, takeObs, teardown>>

\* case LWS_CALLBACK_CLIENT_RECEIVE, line 62:
\* GetIncomingMessageHandler()->Handle(message).  Handle is pure virtual
\* (WebSocketMessageHandler.h); the handler delivers the message to the
\* handoff it was given by SetQueue: queue_->Offer(message).  A call
\* through a null handler or a null queue_ ends the process.
OnReceive ==
  /\ At("w", "OnWebSocketEvent_locked")
  /\ event.reason = "RECEIVE"
  /\ IF incoming_message_handler_ = NULL \/ handler_queue_ = NULL
       THEN crashed' = TRUE /\ UNCHANGED pc
       ELSE Goto("w", "Offer_lock") /\ UNCHANGED crashed
  /\ UNCHANGED <<writeObs,
                 sessionVars, mutex_, handoffVars, queue_mutex_, callVars,
                 transportVars, event, accepted, connectObs, offerObs,
                 takeObs, teardown>>

\* ------------------------------------- SynchronousBlockingQueue::Offer

\* Offer, line 51: std::unique_lock<std::mutex> lk(mutex_)
OfferLock ==
  /\ At("w", "Offer_lock")
  /\ queue_mutex_ = FREE
  /\ queue_mutex_' = "w"
  /\ Goto("w", "Offer_locked")
  /\ UNCHANGED <<writeObs,
                 sessionVars, mutex_, handoffVars, callVars, transportVars,
                 event, crashed, accepted, connectObs, offerObs, takeObs, teardown>>

\* an Offer that keeps a value that was not taken yet
OfferKeepsUntaken(old, e) == IF ready_to_unlock_ THEN old ELSE e

\* Offer, line 52: the element the slot holds after Offer(e)
OfferedElement(old, e) == e

\* Offer, lines 52-54: element_ = e, ready_to_unlock_ = true, lk.unlock()
OfferStore ==
  /\ At("w", "Offer_locked")
  /\ queue_mutex_ = "w"
  /\ element_' = OfferedElement(element_, event.in)
  /\ ready_to_unlock_' = TRUE
  /\ queue_mutex_' = FREE
  /\ offer_stored' = event.in
  /\ Goto("w", "Offer_notify")
  /\ UNCHANGED <<writeObs,
                 sessionVars, mutex_, cv_, callVars, transportVars, event,
                 crashed, accepted, connectObs, offer_returned,
                 offers_without_take, unconsumed, response_offered, takeObs, teardown>>

\* Offer, line 55: cv_.notify_one(), and Offer returns (to Handle, which
\* returns to the callback)
OfferNotify ==
  /\ At("w", "Offer_notify")
  /\ cv_' = {}
  /\ offer_returned' = event.in
  /\ unconsumed' = TRUE
  /\ offers_without_take' = IF pc["c"] \in TakeLabels THEN 0
                            ELSE Saturate(offers_without_take, 2)
  /\ response_offered' = (response_offered
                            \/ (/\ pc["c"] \in TakeLabels
                                /\ event.in = Response(message["c"])))
  /\ Goto("w", "OnWebSocketEvent_unlock")
  /\ UNCHANGED <<writeObs, sessionVars, mutex_, ready_to_unlock_, element_,
                 queue_mutex_, callVars, transportVars, event, crashed,
                 accepted, connectObs, offer_stored, takeObs,
                 teardown>>

\* case LWS_CALLBACK_CLIENT_RECEIVE, line 63: pthread_mutex_unlock
OnReceiveUnlock ==
  /\ At("w", "OnWebSocketEvent_unlock")
  /\ mutex_ = "w"
  /\ mutex_' = FREE
  /\ event' = NoEvent
  /\ Goto("w", "lws_service")
  /\ UNCHANGED <<writeObs, sessionVars, handoffVars, queue_mutex_, callVars,
                 transportVars, crashed, accepted, connectObs, offerObs,
                 takeObs, teardown>>

\* ----------------------------------------------- RunWatchdog: the exit

\* RunWatchdog, line 147: lws_cancel_service(context_); with a null context
\* the call has undefined behaviour
CancelService ==
  /\ At("w", "lws_cancel_service")
  /\ IF context_ = NULL THEN crashed' \in BOOLEAN ELSE crashed' = FALSE
  /\ Goto("w", "lws_context_destroy")
  /\ UNCHANGED <<writeObs,
                 sessionVars, mutex_, handoffVars, queue_mutex_, callVars,
                 transportVars, event, accepted, connectObs, offerObs,
                 takeObs, teardown>>

\* RunWatchdog, lines 148-152: lws_context_destroy if there is a context,
\* which ends its connection; pthread_exit
DestroyContext ==
  /\ At("w", "lws_context_destroy")
  /\ IF context_ # NULL
       THEN /\ conn' = "none"
            /\ wsi' = NULL
            /\ want_writable' = FALSE
            /\ inbound' = <<>>
       ELSE UNCHANGED <<conn, wsi, want_writable, inbound>>
  /\ Goto("w", "exited")
  /\ UNCHANGED <<writeObs,
                 sessionVars, mutex_, handoffVars, queue_mutex_, callVars,
                 written, event, crashed, accepted, connectObs, offerObs,
                 takeObs, teardown>>

\* ------------------------------------------------------- specification

Next ==
  \/ NewWebSocket
  \/ SetIncomingMessageHandler
  \/ SetQueue
  \/ OpenWebSocketWait
  \/ CallSendSynchronousRequest
  \/ SendSynchronousRequest
  \/ \E t \in Callers : SendAsyncLock(t)
  \/ \E t \in Callers : SendAsyncBody(t)
  \/ \E t \in Senders : SenderCalls(t)
  \/ TakeReset
  \/ TakeLock
  \/ TakeCheck
  \/ TakeWake
  \/ SpuriousWakeup
  \/ DeleteWebSocket
  \/ CallCloseWebSocket
  \/ CloseWebSocketWait
  \/ DestructorClear
  \/ StopWatchDogThreadLock
  \/ StopWatchDogThread
  \/ JoinWatchdog
  \/ DestructorRelease
  \/ SetWatchDogThreadStartedLock
  \/ SetWatchDogThreadStarted
  \/ WatchdogLoop
  \/ CreateContextAndLock
  \/ ClientConnect
  \/ ServiceReturns
  \/ \E reason \in Reasons : Dispatch(reason)
  \/ ServerNotifies
  \/ OnWebSocketEventLock
  \/ OnEstablished
  \/ OnConnectionErrorOrClosed
  \/ OnWriteable
  \/ OnReceive
  \/ OfferLock
  \/ OfferStore
  \/ OfferNotify
  \/ OnReceiveUnlock
  \/ CancelService
  \/ DestroyContext

Spec == Init /\ [][Next]_vars


\* ---------------------------------------------------------------- claims

\* SendSynchronousRequest is between the return of SendAsync and its own
\* return
AwaitingResponse == pc["c"] \in TakeLabels

\* the step in which Take returns
TakeReturns == pc["c"] = "Take_check" /\ pc'["c"] = "idle"

\* C1: once Offer(r) has returned for the response r of the request that
\* SendSynchronousRequest passed to SendAsync, and until the call returns,
\* r is not lost: the slot holds r and is marked delivered, so that Take
\* returns r.
C1_ResponseNotLost ==
  (AwaitingResponse /\ response_offered)
    => (ready_to_unlock_ /\ element_ = Response(message["c"]))

\* C2: a Take that is called after an Offer(x) has returned, x not taken
\* yet, does not block (it returns x).
C2_TakeAfterOfferDoesNotBlock ==
  take_pending # Unset => pc["c"] # "Take_wait"

\* two Offers have returned since Take was last active, and neither Take
\* nor Offer is running
TwoOffersNoTake ==
  /\ offers_without_take >= 2
  /\ pc["c"] \notin TakeLabels
  /\ pc["w"] \notin OfferLabels

\* after Offer(x) then Offer(y) with no Take in between the slot holds y
\* and is marked delivered
SlotHoldsLastOffer ==
  TwoOffersNoTake => (ready_to_unlock_ /\ element_ = offer_returned)

\* C3, as claimed: the slot holds the last of two Offers, and whenever Take
\* returns, its result is the argument of the most recent Offer that had
\* returned.
C3_TakeReturnsLastReturnedOffer ==
  [][SlotHoldsLastOffer'
       /\ (TakeReturns => response_message' = offer_returned)]_vars

\* C3, amended: the slot holds the last of two Offers, and whenever Take
\* returns, its result is the argument of the most recent Offer that had
\* stored its value and released the handoff mutex (that Offer may not have
\* called notify_one yet).
C3_TakeReturnsLastStoredOffer ==
  [][SlotHoldsLastOffer'
       /\ (TakeReturns => response_message' = offer_stored)]_vars

\* C3's case: two Offers returned with no Take in between, the second one
\* being a different message, and the slot holds the second
C3_Witness ==
  /\ TwoOffersNoTake
  /\ ready_to_unlock_
  /\ element_ = offer_returned
  /\ element_.kind = "resp"
  /\ element_.n = 2

\* the step in which SendSynchronousRequest tests the state it reads
ChecksState ==
  pc["c"] = "SendSynchronousRequest" /\ pc'["c"] # "SendSynchronousRequest"

\* C4: a SendSynchronousRequest that reads a state other than CONNECTED
\* returns the empty string at once: it does not go on to SendAsync and
\* Take, nothing is written or enqueued, and writable_ is unchanged.
C4_CallWhileNotConnected ==
  [][(ChecksState /\ connection_state_ # CONNECTED)
       => /\ pc'["c"] = "idle"
          /\ response_message' = EmptyString
          /\ UNCHANGED <<written, enqueued_messages_, writable_, accepted,
                         connection_state_, handle_, handoffVars>>]_vars

\* C4's case: a call made while the connection was being made again has
\* returned the empty string
C4_Witness ==
  /\ pc["c"] = "idle"
  /\ nsent["c"] > 0
  /\ response_message = EmptyString
  /\ connection_state_ = CONNECTING

\* the payload of the SendAsync that holds the session mutex, if any
InSendAsync ==
  IF \E t \in Callers : pc[t] = "SendAsync_locked"
    THEN <<message[CHOOSE t \in Callers : pc[t] = "SendAsync_locked"]>>
    ELSE <<>>

\* C5: the payloads handed to lws_write, followed by the queued ones (and
\* by the one SendAsync is handling), are the payloads in the order in
\* which the SendAsync calls took the session mutex: writes are in that
\* order, and no payload is written while an older one is queued.
C5_FifoOutboundOrder ==
  written \o enqueued_messages_ \o InSendAsync = accepted

\* C5's case: payloads were queued behind one another and written
C5_Witness ==
  /\ Len(written) >= 2
  /\ Len(enqueued_messages_) >= 1
  /\ writable_ = FALSE

\* how often m occurs in sequence q
Count(m, q) == Cardinality({i \in 1..Len(q) : q[i] = m})

\* the payloads SendAsync has been called with
Passed ==
  {Request(t, k) : t \in Callers, k \in 1..MaxSends} \cap
    {accepted[i] : i \in 1..Len(accepted)}

\* C6: every payload a SendAsync call took the mutex with is, once the call
\* has handled it, in the queue exactly once or written exactly once, never
\* both; and the writes of one caller's payloads are in that caller's call
\* order.
C6_NoPayloadDroppedOrDuplicated ==
  /\ \A m \in Passed :
       Count(m, written) + Count(m, enqueued_messages_) + Count(m, InSendAsync) = 1
  /\ Cardinality(Passed) = Len(accepted)
  /\ \A i, j \in 1..Len(written) :
       (i < j /\ written[i].src = written[j].src) => written[i].n < written[j].n

\* C6's case: one thread is in SendAsync, holding the mutex, while another
\* waits for it, and payloads of both threads were written or queued
C6_Witness ==
  /\ pc["s1"] = "SendAsync_locked"
  /\ pc["c"] = "SendAsync"
  /\ Len(written) + Len(enqueued_messages_) >= 1

\* the first connect attempt that yielded a handle, and the iteration it
\* was made in, are known exactly (the counts did not saturate)
FirstHandleCounted ==
  /\ Constructing
  /\ first_handle # NoHandle
  /\ first_handle.attempt < MaxAttempts
  /\ first_handle.iteration < MaxIter

\* once Connected, the state stays Connected until a ConnectionError or
\* Closed event is dispatched
StaysConnected ==
  (connection_state_ = CONNECTED /\ connection_state_' # CONNECTED)
    => /\ pc["w"] = "OnWebSocketEvent_locked"
       /\ event.reason \in {"CONNECTION_ERROR", "CLOSED"}

\* C7, as claimed: if the connect attempt first yields a handle on the Nth
\* attempt, the state is Connected within N watchdog iterations, and once
\* Connected it stays so until a ConnectionError or Closed event.
C7_ConnectedWithinNIterations ==
  [][/\ (FirstHandleCounted /\ connection_state_ = CONNECTED)'
          => (iterations <= first_handle.attempt)'
     /\ StaysConnected]_vars

\* C7, amended: if the connect attempt first yields a handle on the Nth
\* attempt, that is in watchdog iteration N, and the state is Connecting
\* then; it is Connected no earlier than iteration N+1: in the iteration
\* whose lws_service dispatches Established.  Once Connected it stays so
\* until a ConnectionError or Closed event is dispatched.
C7_ConnectedAfterIterationN ==
  [][/\ FirstHandleCounted'
          => /\ first_handle'.iteration = first_handle'.attempt
             /\ (first_handle = NoHandle => connection_state_' = CONNECTING)
             /\ (connection_state_' = CONNECTED
                   => iterations' >= first_handle'.attempt + 1)
     /\ (connection_state_ # CONNECTED /\ connection_state_' = CONNECTED)
          => (pc["w"] = "OnWebSocketEvent_locked"
                /\ event.reason = "ESTABLISHED")
     /\ StaysConnected]_vars

\* C7's case: the second connect attempt was the first to yield a handle,
\* and the state is Connected in the third iteration
C7_Witness ==
  /\ FirstHandleCounted
  /\ first_handle.attempt = 2
  /\ connection_state_ = CONNECTED
  /\ iterations = 3
  /\ first_connected = 3

\* the watchdog thread takes a step from the head of its loop
LoopStep == pc["w"] = "loop" /\ pc'["w"] # "loop"

\* C8: while the watchdog runs and the state is Disconnected (a Closed or
\* ConnectionError event sets it so), the next iteration takes the
\* Disconnected branch and makes a connect attempt, however many attempts
\* have failed; the state stays Disconnected until an attempt yields a
\* handle, a failed attempt leaves it Disconnected, and an attempt changes
\* nothing of a caller.
C8_AutomaticReconnect ==
  [][/\ (LoopStep /\ watchdog_thread_running_
           /\ connection_state_ = DISCONNECTED)
          => pc'["w"] = "lws_create_context"
     /\ (pc["w"] = "lws_create_context" /\ pc'["w"] # "lws_create_context")
          => pc'["w"] = "lws_client_connect"
     /\ (pc["w"] = "OnWebSocketEvent_locked"
           /\ event.reason \in {"CONNECTION_ERROR", "CLOSED"}
           /\ pc'["w"] # "OnWebSocketEvent_locked")
          => connection_state_' = DISCONNECTED
     /\ (connection_state_ = DISCONNECTED /\ connection_state_' # DISCONNECTED)
          => (pc["w"] = "lws_client_connect" /\ wsi' # NULL
                /\ connection_state_' = CONNECTING)
     /\ (pc["w"] = "lws_client_connect" /\ pc'["w"] # "lws_client_connect")
          => /\ (wsi' = NULL => connection_state_' = DISCONNECTED)
             /\ UNCHANGED <<callVars, handoffVars>>
             /\ \A t \in Callers : pc'[t] = pc[t]]_vars

\* C8's case: after the facade was constructed the connection was lost, two
\* attempts in a row have failed, and the watchdog makes the next one
C8_Witness ==
  /\ ~Constructing
  /\ connection_state_ = DISCONNECTED
  /\ attempts >= 2
  /\ pc["w"] = "lws_client_connect"

\* C9: the facade's constructor creates the session (which starts the
\* watchdog), registers the handler and wires it to the handoff before it
\* waits, and returns only on reading the state CONNECTED.
C9_FacadeConstruction ==
  [][/\ (pc["c"] = "OpenWebSocket_wait" /\ pc'["c"] # "OpenWebSocket_wait")
          => connection_state_ = CONNECTED
     /\ (pc["c"] = "OpenWebSocket_wait")'
          => /\ pc'["w"] # "not_created"
             /\ incoming_message_handler_' = HANDLER
             /\ handler_queue_' = QUEUE
     /\ (pc["c"] \in {"SetIncomingMessageHandler", "SetQueue"})'
          => pc'["w"] # "not_created"]_vars

\* C9's case: the constructor has just returned
C9_Witness ==
  /\ pc["c"] = "idle"
  /\ nsent["c"] = 0
  /\ incoming_message_handler_ = HANDLER
  /\ handler_queue_ = QUEUE
  /\ pc["w"] # "not_created"

\* whether sequence p is a prefix of sequence q
IsPrefix(p, q) == Len(p) <= Len(q) /\ SubSeq(q, 1, Len(p)) = p

\* the steps of teardown the claim names, in the order taken
NamedSteps == SelectSeq(teardown, LAMBDA step : step # "clear")

\* C10, as claimed: teardown stops the watchdog, then waits for the queue
\* to be empty, then joins the watchdog thread, then releases the session.
C10_StopThenDrain ==
  IsPrefix(NamedSteps, <<"stop", "drained", "join", "release">>)

\* C10, amended: teardown first waits until it reads the outbound queue
\* empty; then, in the session's destructor, it clears the queue, stops the
\* watchdog (running = false), joins the watchdog thread, and releases the
\* session and its handoff.
C10_DrainThenStop ==
  /\ IsPrefix(teardown, <<"drained", "clear", "stop", "join", "release">>)
  /\ teardown # <<>> => enqueued_messages_ = <<>>
  /\ Len(teardown) >= 3 => ~watchdog_thread_running_
  /\ Len(teardown) >= 4 => pc["w"] = "exited"

\* C10's case: teardown has run to its end
C10_Witness ==
  /\ pc["c"] = "closed"
  /\ Len(teardown) = 5
  /\ Len(written) >= 1

\* C11: teardown loses no queued message.  When the destructor clears the
\* queue, the queue is empty already, so that teardown discards no payload;
\* from then on, and when the session is released, every payload a SendAsync
\* call took the mutex with has been handed to lws_write, in that order.
C11_TeardownLosesNoMessage ==
  /\ pc["c"] = "~WebSocket" => enqueued_messages_ = <<>>
  /\ pc["c"] \in {"~WebSocket", "StopWatchDogThread",
                  "StopWatchDogThread_locked", "pthread_join", "release",
                  "closed"}
       => (written = accepted /\ enqueued_messages_ = <<>>)

\* C11's case: the session was released after several payloads were
\* accepted, and all of them were written
C11_Witness ==
  /\ pc["c"] = "closed"
  /\ Len(accepted) >= 2
  /\ written = accepted

\* C12: handle_ is non-null only when the state is Connecting or Connected;
\* whenever the state is Disconnected, handle_ is null.
C12_HandleOnlyWhileConnected ==
  /\ handle_ # NULL => connection_state_ \in {CONNECTING, CONNECTED}
  /\ connection_state_ = DISCONNECTED => handle_ = NULL

\* C13: writable_ is true only when the state is Connected, also after a
\* ConnectionError or Closed event and in the reconnect cycle that follows.
C13_WritableOnlyWhileConnected ==
  writable_ => connection_state_ = CONNECTED

\* C14: writable_ is true only when the outbound queue is empty: SendAsync
\* queues a payload only when writable_ is false, and a Writable event sets
\* writable_ only when it finds the queue empty.
C14_WritableOnlyWithEmptyQueue ==
  writable_ => enqueued_messages_ = <<>>

\* C14's case: payloads were queued and written, the queue is empty again
\* and a Writable event has set writable_
C14_Witness ==
  /\ writable_
  /\ enqueued_messages_ = <<>>
  /\ Len(written) >= 2
  /\ connection_state_ = CONNECTED

\* the positions at which a thread's next step writes connection_state_,
\* writable_, enqueued_messages_ or handle_: the body of SendAsync, the
\* destructor's clear() and handle_ = nullptr, the watchdog's
\* SetConnectState(CONNECTING), and the cases of OnWebSocketEvent other than
\* RECEIVE
SessionWriteLabels ==
  {"SendAsync_locked", "~WebSocket", "release", "lws_client_connect",
   "OnWebSocketEvent_locked"}

\* thread t takes a step that writes one of the four fields
WritesSession(t) ==
  /\ pc[t] \in SessionWriteLabels
  /\ pc'[t] # pc[t]
  /\ pc[t] = "OnWebSocketEvent_locked" => event.reason # "RECEIVE"

\* C15: every write to connection_state_, writable_, enqueued_messages_ or
\* handle_, by any thread and in any operation, teardown included, is made
\* by a thread that holds the session mutex.
C15_SerializedMutation ==
  [][/\ <<connection_state_, writable_, enqueued_messages_, handle_>>'
          # <<connection_state_, writable_, enqueued_messages_, handle_>>
          => \E t \in Threads : WritesSession(t)
     /\ \A t \in Threads : WritesSession(t) => mutex_ = t]_vars

\* the positions at which the caller thread's next step reads the session:
\* GetConnectState() in SendSynchronousRequest and in OpenWebSocket's loop,
\* HasEnqueuedMessages() in CloseWebSocket's loop
CallerReadLabels ==
  {"SendSynchronousRequest", "OpenWebSocket_wait", "CloseWebSocket"}

\* C16: every read of the session's state made on the caller thread (the
\* connect-state check of SendSynchronousRequest, the wait loop of the
\* construction, the queue poll of teardown) is made while the caller holds
\* the session mutex.
C16_CallerReadsUnderLock ==
  [][(pc["c"] \in CallerReadLabels /\ pc'["c"] # pc["c"])
       => mutex_ = "c"]_vars

\* thread t is waiting for the session mutex
WaitsForSessionMutex(t) ==
  pc[t] \in {"SendAsync", "StopWatchDogThread", "RunWatchdog",
             "lws_create_context", "OnWebSocketEvent"}

\* thread t is waiting for the handoff mutex
WaitsForHandoffMutex(t) == pc[t] \in {"Take_lock", "Offer_lock"}

\* thread t waits for a mutex that thread u holds
BlockedBy(t, u) ==
  \/ WaitsForSessionMutex(t) /\ mutex_ = u
  \/ WaitsForHandoffMutex(t) /\ queue_mutex_ = u

\* C17: a caller in Take never holds the session mutex; when the event
\* thread, holding the session mutex, waits in Offer for the handoff mutex,
\* its holder is the caller in Take, whose next step releases it and needs
\* no other lock; and no two threads wait for a mutex the other holds.
C17_SeparateLocksNoDeadlock ==
  /\ pc["c"] \in TakeLabels => mutex_ # "c"
  /\ (~crashed /\ pc["w"] = "Offer_lock" /\ queue_mutex_ # FREE)
       => (queue_mutex_ = "c" /\ ENABLED TakeCheck)
  /\ \A t, u \in Threads : ~(t # u /\ BlockedBy(t, u) /\ BlockedBy(u, t))

\* C17's case: the event thread, holding the session mutex, is in Offer and
\* waits for the handoff mutex, which the caller holds in Take
C17_Witness ==
  /\ pc["w"] = "Offer_lock"
  /\ mutex_ = "w"
  /\ queue_mutex_ = "c"
  /\ pc["c"] = "Take_check"

\* the watchdog thread is in OnWebSocketEvent, in the case of reason r,
\* holding the session mutex
Dispatching(r) == pc["w"] = "OnWebSocketEvent_locked" /\ event.reason = r

\* the event thread is inside OnWebSocketEvent (the dispatcher)
InDispatcher ==
  pc["w"] \in {"OnWebSocketEvent", "OnWebSocketEvent_locked", "Offer_lock",
               "Offer_locked", "Offer_notify", "OnWebSocketEvent_unlock"}

\* C18: the state starts Disconnected; it becomes Connecting only in the
\* watchdog's Disconnected branch, when lws_client_connect yields a handle;
\* it becomes Connected only by an Established event; it becomes
\* Disconnected only by a ConnectionError or Closed event; the dispatcher
\* never sets Connecting, and no step of a caller (SendAsync,
\* SendSynchronousRequest) changes the state.
C18_ConnectionStateMachine ==
  /\ connection_state_ = DISCONNECTED
  /\ [][/\ (connection_state_ # CONNECTING /\ connection_state_' = CONNECTING)
             => /\ pc["w"] = "lws_client_connect"
                /\ connection_state_ = DISCONNECTED
                /\ wsi' # NULL /\ wsi' # wsi
        /\ (connection_state_ # CONNECTED /\ connection_state_' = CONNECTED)
             => Dispatching("ESTABLISHED")
        /\ (connection_state_ # DISCONNECTED /\ connection_state_' = DISCONNECTED)
             => (Dispatching("CONNECTION_ERROR") \/ Dispatching("CLOSED"))
        /\ (InDispatcher /\ connection_state_' # connection_state_)
             => connection_state_' # CONNECTING
        /\ (\E t \in Callers : pc'[t] # pc[t])
             => connection_state_' = connection_state_]_vars

\* C18's case: the state has gone from Disconnected through Connecting and
\* Connected (whose Established event stored the handle) back to
\* Disconnected, and is Connecting again
C18_Witness ==
  /\ connection_state_ = CONNECTING
  /\ handle_ # NULL
  /\ wsi # handle_

\* thread t takes the step that is the body of SendAsync
SendAsyncStep(t) ==
  pc[t] = "SendAsync_locked" /\ pc'[t] # "SendAsync_locked"

\* C19: the body of SendAsync runs under the session mutex; if writable_ is
\* true the payload is handed to lws_write at once, writable_ becomes false
\* and the queue is unchanged; if writable_ is false the payload is appended
\* at the tail of the queue, nothing is written and writable_ stays false.
\* The state and the handle are unchanged in both cases.
C19_SendAsyncStep ==
  [][\A t \in Callers :
       SendAsyncStep(t)
         => /\ mutex_ = t
            /\ IF writable_
                 THEN /\ written' = Append(written, message[t])
                      /\ writable_' = FALSE
                      /\ enqueued_messages_' = enqueued_messages_
                 ELSE /\ enqueued_messages_' =
                           Append(enqueued_messages_, message[t])
                      /\ written' = written
                      /\ writable_' = FALSE
            /\ connection_state_' = connection_state_
            /\ handle_' = handle_]_vars

\* C19's case: a SendAsync found writable_ true and wrote its payload, and
\* the two calls after it queued theirs, in call order
C19_Witness ==
  /\ written = <<Request("s1", 1)>>
  /\ enqueued_messages_ = <<Request("c", 1), Request("s1", 2)>>
  /\ writable_ = FALSE
  /\ accepted = written \o enqueued_messages_

\* the event thread takes the step that is the Writable case
WriteableStep == Dispatching("WRITEABLE") /\ pc'["w"] # pc["w"]

\* C20: the Writable case runs under the session mutex; if the queue is not
\* empty, exactly its head is removed and handed to lws_write, the rest of
\* the queue keeps its order, writable_ stays false and a new writable
\* notification is requested; if the queue is empty nothing is written and
\* writable_ becomes true.
C20_WritableEventStep ==
  [][WriteableStep
       => /\ mutex_ = "w"
          /\ IF enqueued_messages_ # <<>>
               THEN /\ written' = Append(written, Head(enqueued_messages_))
                    /\ enqueued_messages_' = Tail(enqueued_messages_)
                    /\ writable_ = FALSE
                    /\ writable_' = FALSE
                    /\ want_writable' = TRUE
               ELSE /\ written' = written
                    /\ enqueued_messages_' = enqueued_messages_
                    /\ writable_' = TRUE]_vars

\* C20's case: of three payloads accepted the two oldest are written, in
\* that order, the third is still queued with writable_ false, and the
\* writable notification that will take it from the queue is requested
C20_Witness ==
  /\ Len(accepted) = 3
  /\ written = SubSeq(accepted, 1, 2)
  /\ enqueued_messages_ = <<accepted[3]>>
  /\ writable_ = FALSE
  /\ want_writable
  /\ pc["w"] = "lws_service"

\* the event thread takes the step that is the Established case
EstablishedStep == Dispatching("ESTABLISHED") /\ pc'["w"] # pc["w"]

\* a Writable event of the open connection is requested, or dispatched and
\* not yet handled
WritablePending ==
  \/ want_writable
  \/ pc["w"] \in {"OnWebSocketEvent", "OnWebSocketEvent_locked"}
       /\ event.reason = "WRITEABLE"

\* C21: in the Established case the dispatcher, holding the session mutex,
\* sets the state Connected and stores the new handle, and it requests a
\* writable notification, leaving the queue as it is; and whenever payloads
\* are queued in the state Connected on the open connection, a Writable
\* event is pending, so that the payloads queued before or during the
\* connect are written, head first, as the Writable events follow.
C21_EstablishedStep ==
  /\ [](((connection_state_ = CONNECTED /\ conn = "open"
            /\ enqueued_messages_ # <<>>) => WritablePending))
  /\ [][EstablishedStep
          => /\ mutex_ = "w"
             /\ connection_state_' = CONNECTED
             /\ handle_' = wsi /\ handle_' # NULL
             /\ want_writable' = TRUE
             /\ enqueued_messages_' = enqueued_messages_
             /\ written' = written]_vars

\* C21's case: a payload was queued while the connection was being made
\* again, Established has been handled and the writable notification that
\* will write the payload is requested
C21_Witness ==
  /\ connection_state_ = CONNECTED
  /\ conn = "open"
  /\ handle_ = "wsi2"
  /\ enqueued_messages_ # <<>>
  /\ want_writable
  /\ written = <<>>

\* the watchdog thread leaves the position it is at
WatchdogLeaves(label) == pc["w"] = label /\ pc'["w"] # label

\* C22: once the running flag is false the watchdog leaves its loop at the
\* next check; it then cancels the event service, which is a call on a
\* context that exists (no transport call is made on a null context),
\* destroys the context if and only if there is one, and terminates.
C22_WatchdogExit ==
  [][/\ (WatchdogLeaves("loop") /\ ~watchdog_thread_running_)
          => pc'["w"] = "lws_cancel_service"
     /\ (WatchdogLeaves("loop") /\ watchdog_thread_running_)
          => pc'["w"] # "lws_cancel_service"
     /\ WatchdogLeaves("lws_cancel_service")
          => (context_ # NULL /\ pc'["w"] = "lws_context_destroy")
     /\ WatchdogLeaves("lws_context_destroy")
          => /\ pc'["w"] = "exited"
             /\ context_ # NULL => (conn' = "none" /\ wsi' = NULL)
             /\ context_ = NULL => UNCHANGED <<conn, wsi>>
     /\ pc["w"] = "exited" => pc'["w"] = "exited"]_vars

\* the destructor is past StopWatchDogThread
Stopped == pc["c"] \in {"pthread_join", "release", "closed"}

\* C24: once StopWatchDogThread has set the running flag to false, the flag
\* is never true again (so that the watchdog leaves its loop and the
\* destructor's join returns), also when the watchdog thread had not yet
\* executed SetWatchDogThreadStarted at the moment of the stop.
C24_StopIsFinal ==
  Stopped => ~watchdog_thread_running_

\* C23: the inbound handler is non-null whenever the dispatcher processes a
\* Receive event: no Receive is dispatched between the start of the
\* watchdog in the session's constructor and the call of
\* SetIncomingMessageHandler that follows it.
C23_HandlerRegisteredBeforeUse ==
  Dispatching("RECEIVE") => incoming_message_handler_ # NULL

\* the watchdog creates a context: lws_create_context, line 122
CreatesContext == WatchdogLeaves("lws_create_context")

\* C25: at most one context created by the watchdog is live at any time,
\* and all of them are destroyed when the watchdog has terminated.  The
\* session refers to its context by context_ alone and the only
\* lws_context_destroy is the one of the exit, on context_: so a context is
\* created, and context_ set to it, only when the session has no context
\* (context_ is null).
C25_NoLeakedContext ==
  [][/\ CreatesContext => context_ = NULL
     /\ WatchdogLeaves("lws_client_connect") => context_ = NULL]_vars

\* a payload is handed to lws_write in this step
WriteStep == written' # written

\* C26: every write to the transport is preceded by a Writable event of the
\* current connection (the one whose Established event stored handle_), with
\* no other write in between; so after a Closed or ConnectionError event and
\* a reconnect, nothing is written on the new connection before it has
\* reported Writable.
C26_OneWritePerWritable ==
  [][WriteStep => writable_reported]_vars

\* C27: the payload of a SendSynchronousRequest is written or enqueued by
\* SendAsync only when the state is Connected: no Closed or ConnectionError
\* event takes effect between the test of the state and the call of
\* SendAsync, so the caller does not enter Take for a request issued on a
\* session that is not connected.
C27_RequestSentOnlyWhileConnected ==
  [][(SendAsyncStep("c") => connection_state_ = CONNECTED)
       /\ ((pc["c"] \notin TakeLabels /\ pc'["c"] \in TakeLabels)
             => connection_state_ = CONNECTED)]_vars

=============================================================================
